---- MODULE Spec2Model ----
(***************************************************************************)
(* Price-resolution and margin engine of insta-flips (src/unnamed/part_000)*)
(*                                                                         *)
(* The program is a single-threaded node.js process.  Every `await` is a   *)
(* suspension point; the code between two awaits runs atomically.  Each    *)
(* limiter slot of the p-limit pool is modelled by a call stack of frames; *)
(* one step of a slot is the completion of the I/O its top frame awaits    *)
(* (a store read or write, a provider response) followed by the            *)
(* synchronous code that runs until the next await.                        *)
(*                                                                         *)
(* JavaScript values: null/undefined is Null; a number from a provider is  *)
(* a rational Num(n, d); integers stored in the tables are plain integers. *)
(***************************************************************************)
EXTENDS Integers, Sequences, FiniteSets, TLC

\* ------------------------------------------------------------- bounds ---
\* The clock stops advancing past MaxNow (milliseconds).
MaxNow == 60000
\* Store operations (db.get / db.run) that may fail during one run.
MaxStoreFaults == 1
\* Iterations of the top-margins refresh loop that are modelled.
MaxRefresh == 1
\* Polls of the market feed after the bootstrap.
MaxPolls == 1

\* ---------------------------------------------------------- constants ---
PRICE_CACHE_TTL == 1000 * 60 * 1

Items == {"A", "B", "C"}
\* identifiers as they may appear in provider payloads (before toUpperCase)
RawIds == Items \cup {"c", ""}

Null == [t |-> "null"]
\* a JavaScript value that is neither null nor a number (a string, say)
NaS == [t |-> "nas"]
\* the rejection of a promise (a thrown exception)
Throw == [t |-> "throw"]
Num(n, d) == [t |-> "num", n |-> n, d |-> d]
IsNum(v) == v.t = "num"

\* String.prototype.toUpperCase on the identifiers of the pool
toUpperCase(s) == IF s = "c" THEN "C" ELSE s

\* Math.round: nearest integer, halves towards +Infinity
MathRound(n, d) == (2 * n + d) \div (2 * d)
MathRoundNum(x) == MathRound(x.n, x.d)
NumLess(a, b) == a.n * b.d < b.n * a.d

\* Number(x.toFixed(2)), as an integer number of hundredths, of
\* (profit / perOutput) * 100.  toFixed rounds the magnitude to the nearest
\* hundredth, a tie to the larger magnitude.
ToFixed2Pct(profit, perOutput) ==
    LET mag == IF profit < 0 THEN -profit ELSE profit
        h   == (2 * mag * 10000 + perOutput) \div (2 * perOutput)
    IN  IF profit < 0 THEN -h ELSE h

\* ------------------------------------------------------- provider data ---
\* A recipe slot value: "ID:count" text, an object {item, count}, an object
\* without item whose first value is the text "ID:count", or empty.
\* The count part of the text is kept as the token parseInt sees.
CntNone == [t |-> "none"]
CntNaN == [t |-> "nan"]
CntInt(v) == [t |-> "int", v |-> v]
SlotStr(id, cnt) == [t |-> "str", id |-> id, cnt |-> cnt]
SlotObj(id, cnt) == [t |-> "obj", id |-> id, cnt |-> cnt]
SlotFirst(id, cnt) == [t |-> "first", id |-> id, cnt |-> cnt]
SlotEmpty == [t |-> "empty"]
KV(k, v) == [k |-> k, v |-> v]
Recipe(count, slots) == [t |-> "recipe", count |-> count, slots |-> slots]

SlotKeys == {"A1", "A2", "A3", "B1", "B2", "B3", "C1", "C2", "C3"}

\* What the recipe provider may answer for an item (besides failing).
RecipePool(item) ==
    CASE item = "A" ->
           { Recipe(CntInt(1), <<KV("A1", SlotStr("B", CntInt(2))),
                                 KV("B1", SlotStr("C", CntInt(1)))>>),
             Recipe(CntInt(2), <<KV("A1", SlotStr("B", CntNone)),
                                 KV("A2", SlotStr("B", CntNone)),
                                 KV("A3", SlotStr("B", CntNone))>>),
             Recipe(CntNaN,    <<KV("type", SlotStr("C", CntNone)),
                                 KV("A1", SlotEmpty),
                                 KV("B2", SlotStr("", CntInt(3)))>>),
             Recipe(CntInt(0), <<KV("C3", SlotObj("C", CntInt(-2)))>>) }
      [] item = "B" ->
           { Recipe(CntNone, <<KV("A1", SlotStr("A", CntInt(1)))>>),
             Recipe(CntNone, <<KV("B2", SlotStr("c", CntNaN))>>),
             Recipe(CntNone, <<KV("A3", SlotObj("C", CntNone)),
                               KV("B1", SlotFirst("", CntNaN))>>) }
      [] item = "C" ->
           { Recipe(CntInt(2), <<KV("A1", SlotStr("B", CntNone))>>) }
      [] OTHER -> {}

\* An auction listing; the provider answers with an array of them.
Listing(sb, pr, bn, bd) == [startingBid |-> sb, price |-> pr, bin |-> bn, bid |-> bd]
AuctionPool(item) ==
    CASE item = "A" -> { <<Listing(NaS, Null, Null, Null)>> }
      [] item = "B" -> { <<Listing(NaS, Num(1, 1), Null, Null),
                           Listing(Null, Null, Null, Num(7, 1))>> }
      [] item = "C" -> { <<Listing(Null, Null, Num(4, 1), Null),
                           Listing(Null, Num(7, 2), Null, Null)>> }
      [] OTHER -> {}

\* A market quote of the feed: buy / sell are numbers or null.
Quote(buy, sell) == [t |-> "quote", buy |-> buy, sell |-> sell]
NoFeed == [i \in Items |-> Null]
FeedPool ==
    { [NoFeed EXCEPT !["A"] = a, !["B"] = b, !["C"] = c] :
        a \in {Quote(Null, Num(100, 1))},
        b \in {Null, Quote(Num(10, 1), Num(19, 2))},
        c \in {Null, Quote(Num(9, 2), Null)} }

\* ------------------------------------------------------ pure functions ---
\* parseInt(text, 10) of a count token, then the caller's NaN test
ParseIntCnt(c) == IF c.t = "int" THEN c ELSE CntNaN

\* parseRecipeSlots, one slot (lines 143-160): the ingredient it pushes, as
\* a sequence of zero or one elements.
ParseSlot(kv) ==
    IF kv.k \notin SlotKeys THEN <<>>
    ELSE IF kv.v.t = "empty" THEN <<>>
    ELSE IF kv.v.t = "str" THEN
        IF kv.v.id = "" THEN <<>>
        ELSE LET cnt == IF kv.v.cnt.t = "none" THEN CntInt(1)
                        ELSE ParseIntCnt(kv.v.cnt)
             IN  <<[item |-> kv.v.id,
                    count |-> IF cnt.t = "nan" THEN CntInt(1) ELSE cnt]>>
    ELSE IF kv.v.t = "obj" /\ kv.v.id # "" THEN
        <<[item |-> kv.v.id,
           count |-> IF kv.v.cnt.t = "none" THEN CntInt(1) ELSE kv.v.cnt]>>
    ELSE IF kv.v.t = "obj" THEN
        \* the first value is the empty item text
        <<[item |-> "", count |-> CntInt(1)]>>
    ELSE
        <<[item |-> kv.v.id,
           count |-> IF kv.v.cnt.t = "none" THEN CntInt(1) ELSE ParseIntCnt(kv.v.cnt)]>>

RECURSIVE ParseSlots(_)
ParseSlots(slots) ==
    IF slots = <<>> THEN <<>>
    ELSE ParseSlot(Head(slots)) \o ParseSlots(Tail(slots))

\* parseRecipeSlots (lines 135-163)
parseRecipeSlots(recipe) ==
    LET parsed == ParseIntCnt(recipe.count)
    IN  [ingredients |-> ParseSlots(recipe.slots),
         outputCount |-> IF recipe.count.t # "none" /\ parsed.t = "int" /\ parsed.v > 0
                         THEN parsed.v ELSE 1]

\* IngCount ignoring the count of the slot
IngCountOne(c) == 1

\* `ing.count || 1` (lines 213, 260)
IngCount(c) == IF c.t = "int" /\ c.v # 0 THEN c.v ELSE 1

\* a.startingBid ?? a.price ?? a.bin ?? a.bid ?? null (line 118)
ListingPrice(a) ==
    IF a.startingBid # Null THEN a.startingBid
    ELSE IF a.price # Null THEN a.price
    ELSE IF a.bin # Null THEN a.bin
    ELSE a.bid

\* the loop of lines 116-120; Null stands for Infinity
RECURSIVE MinListing(_, _)
MinListing(arr, min) ==
    IF arr = <<>> THEN min
    ELSE LET p == ListingPrice(Head(arr))
         IN  MinListing(Tail(arr),
                        IF IsNum(p) /\ (min = Null \/ NumLess(p, min)) THEN p ELSE min)

\* IsFresh with the TTL bound included: a row of age exactly TTL still counts
IsFreshInclusive(now, updatedAt) == now - updatedAt <= PRICE_CACHE_TTL

\* lines 173, 189
IsFresh(now, updatedAt) == now - updatedAt < PRICE_CACHE_TTL

\* a row of the prices table
PriceRow(price, source, layers, updatedAt) ==
    [t |-> "row", price |-> price, source |-> source, layers |-> layers,
     updatedAt |-> updatedAt]
\* the value getItemPrice returns
Price(price, source, layers) ==
    [t |-> "price", price |-> price, source |-> source, layers |-> layers]

\* MarginOf with the percentage taken of the sell price instead of the cost
MarginOfOnSell(total, outputCount, sellNum) ==
    LET perOutput == MathRound(total, IF outputCount = 0 THEN 1 ELSE outputCount)
        sell      == MathRoundNum(sellNum)
        profit    == sell - perOutput
    IN  [costPerUnit |-> perOutput, sellPrice |-> sell, profit |-> profit,
         marginPercent |-> IF sell > 0 THEN ToFixed2Pct(profit, sell) ELSE 0]

\* lines 270-273
MarginOf(total, outputCount, sellNum) ==
    LET perOutput == MathRound(total, IF outputCount = 0 THEN 1 ELSE outputCount)
        sell      == MathRoundNum(sellNum)
        profit    == sell - perOutput
    IN  [costPerUnit |-> perOutput, sellPrice |-> sell, profit |-> profit,
         marginPercent |-> IF perOutput > 0 THEN ToFixed2Pct(profit, perOutput) ELSE 0]

\* ------------------------------------------------------- call frames ---
\* A frame is one activation of an async function, suspended at `pc` (named
\* after the source line of the await).  fx, obs, read, subLayers and subs record
\* what the activation did and saw; the code never reads them.
NoObs == [fresh |-> FALSE, bazaar |-> FALSE, lbinC |-> FALSE, bz |-> Null, lbin |-> Null]
Frame(fn, name, pc, now) ==
    [fn |-> fn, name |-> name, pc |-> pc, now |-> now, top |-> FALSE,
     ings |-> <<>>, outputCount |-> 1, idx |-> 0, total |-> 0, maxLayer |-> 0,
     val |-> Null, bz |-> Null, pre |-> Null,
     fx |-> {}, obs |-> NoObs, read |-> Null, subLayers |-> {}, subs |-> <<>>]

Top(st) == st[Len(st)]
Pop(st) == SubSeq(st, 1, Len(st) - 1)
SetTop(st, f) == [st EXCEPT ![Len(st)] = f]
Push(st, f) == Append(st, f)
AddFx(st, e) == [i \in DOMAIN st |-> [st[i] EXCEPT !.fx = @ \cup {e}]]
\* the number of getItemPrice activations on a stack (the recursion depth)
Depth(st) == Cardinality({i \in DOMAIN st : st[i].fn = "getItemPrice"})
\* the items on the current resolution path
OnPath(st) == {st[i].name : i \in {j \in DOMAIN st : st[j].fn = "getItemPrice"}}

\* what a finished activation reports
RetRec(f, depth, via, val) ==
    [fn |-> f.fn, item |-> f.name, top |-> f.top, depth |-> depth, via |-> via,
     val |-> val, now |-> f.now, read |-> f.read, obs |-> f.obs, fx |-> f.fx,
     subLayers |-> f.subLayers, pre |-> f.pre,
     ings |-> f.ings, outputCount |-> f.outputCount, subs |-> f.subs]

\* The state of one limiter slot while its synchronous code runs.
NoOut == [t |-> "noout"]
Machine(st, vis) == [stack |-> st, visited |-> vis, rets |-> <<>>, out |-> NoOut]

RECURSIVE Resume(_, _, _)
RECURSIVE getItemPrice(_, _, _, _)

\* The top frame returns `val` (or throws, val = Throw) to its caller.
Return(m, via, val, clock) ==
    LET f == Top(m.stack)
    IN  Resume([m EXCEPT !.stack = Pop(@),
                         !.rets = Append(@, RetRec(f, Depth(m.stack), via, val))],
               val, clock)

\* line 235: `easyItems` is declared nowhere in the program, so evaluating
\* `easyItems[name]` throws a ReferenceError; lines 236-244 are never reached.
easyItemsLookup(m, clock) == Return(m, "exhausted", Throw, clock)

\* getItemPrice without the guard of line 168
getItemPriceNoGuard(m, itemName, top, clock) ==
    LET name == toUpperCase(itemName)
        vis  == IF top THEN {} ELSE m.visited
    IN  IF itemName = "" THEN
            Resume([m EXCEPT !.rets = Append(@,
                        RetRec([Frame("getItemPrice", "", "guard166", clock)
                                   EXCEPT !.top = top],
                               Depth(m.stack) + 1, "noname", Null))],
                   Null, clock)
        ELSE [m EXCEPT !.visited = vis \cup {name},
                       !.stack = Push(@, [Frame("getItemPrice", name, "get171", clock)
                                             EXCEPT !.top = top])]

\* getItemPrice, lines 165-171: the synchronous entry, up to the db.get.
getItemPrice(m, itemName, top, clock) ==
    LET name == toUpperCase(itemName)
        vis  == IF top THEN {} ELSE m.visited
    IN  IF itemName = "" THEN
            Resume([m EXCEPT !.rets = Append(@,
                        RetRec([Frame("getItemPrice", "", "guard166", clock)
                                   EXCEPT !.top = top],
                               Depth(m.stack) + 1, "noname", Null))],
                   Null, clock)
        ELSE IF name \in vis THEN
            Resume([m EXCEPT !.rets = Append(@,
                        RetRec([Frame("getItemPrice", name, "guard168", clock)
                                   EXCEPT !.top = top],
                               Depth(m.stack) + 1,
                               IF name \in OnPath(m.stack) THEN "cycle" ELSE "visited",
                               Null))],
                   Null, clock)
        ELSE [m EXCEPT !.visited = vis \cup {name},
                       !.stack = Push(@, [Frame("getItemPrice", name, "get171", clock)
                                             EXCEPT !.top = top])]

\* The next ingredient of the loop of the top frame (lines 211-214, 258-261).
NextIngredient(m, f, clock) ==
    getItemPrice([m EXCEPT !.stack = SetTop(@, f)], f.ings[f.idx].item,
                 f.fn = "computeMarginForItem", clock)

\* lines 204-208 / 250-253: the recipe has arrived in the top frame
AfterRecipe(m, recipe, clock) ==
    LET f      == Top(m.stack)
        parsed == parseRecipeSlots(recipe)
        g      == [f EXCEPT !.ings = parsed.ingredients,
                            !.outputCount = parsed.outputCount,
                            !.idx = 1, !.total = 0, !.maxLayer = 0,
                            !.pc = IF f.fn = "getItemPrice" THEN "await214" ELSE "await261"]
    IN  IF recipe = Null \/ parsed.ingredients = <<>>
        THEN IF f.fn = "getItemPrice" THEN easyItemsLookup(m, clock)
             ELSE Return(m, IF recipe = Null THEN "norecipe" ELSE "noingredients",
                         Null, clock)
        ELSE NextIngredient(m, g, clock)

\* NextMaxLayer without the +1 of line 220
NextMaxLayerFlat(fn, maxLayer, layers) ==
    IF layers > maxLayer THEN layers ELSE maxLayer

\* lines 220, 267: the running maximum of the layers of the ingredients
NextMaxLayer(fn, maxLayer, layers) ==
    IF fn = "getItemPrice"
    THEN (IF layers + 1 > maxLayer THEN layers + 1 ELSE maxLayer)
    ELSE (IF layers > maxLayer THEN layers ELSE maxLayer)

\* AfterIngredient with computeMarginForItem skipping an ingredient it cannot
\* price instead of returning (line 263)
AfterIngredientSkip(m, sub, clock) ==
    LET f   == Top(m.stack)
        cnt == IngCount(f.ings[f.idx].count)
        g   == [f EXCEPT !.total = @ + sub.price * cnt,
                         !.subLayers = @ \cup {sub.layers},
                         !.subs = Append(@, sub.price),
                         !.maxLayer = NextMaxLayer(f.fn, @, sub.layers),
                         !.idx = @ + 1]
        h   == IF sub = Null THEN [f EXCEPT !.idx = @ + 1] ELSE g
    IN  IF sub = Null /\ f.fn = "getItemPrice" THEN easyItemsLookup(m, clock)
        ELSE IF h.idx <= Len(h.ings) THEN NextIngredient(m, h, clock)
        ELSE IF f.fn = "getItemPrice" THEN
            [m EXCEPT !.stack = SetTop(@, [g EXCEPT
                 !.pc = "run225",
                 !.val = MathRound(g.total, IF g.outputCount = 0 THEN 1 ELSE g.outputCount)])]
        ELSE
            [m EXCEPT !.stack = SetTop(@, [h EXCEPT
                 !.pc = "run276", !.now = clock,
                 !.val = MarginOf(h.total, h.outputCount, h.bz.sell)])]

\* lines 215-231 / 262-275: an ingredient's price has arrived in the top frame
AfterIngredient(m, sub, clock) ==
    LET f   == Top(m.stack)
        cnt == IngCount(f.ings[f.idx].count)
        g   == [f EXCEPT !.total = @ + sub.price * cnt,
                         !.subLayers = @ \cup {sub.layers},
                         !.subs = Append(@, sub.price),
                         !.maxLayer = NextMaxLayer(f.fn, @, sub.layers),
                         !.idx = @ + 1]
    IN  IF sub = Null THEN
            IF f.fn = "getItemPrice" THEN easyItemsLookup(m, clock)
            ELSE Return(m, "unpriceable", Null, clock)
        ELSE IF g.idx <= Len(g.ings) THEN NextIngredient(m, g, clock)
        ELSE IF f.fn = "getItemPrice" THEN
            [m EXCEPT !.stack = SetTop(@, [g EXCEPT
                 !.pc = "run225",
                 !.val = MathRound(g.total, IF g.outputCount = 0 THEN 1 ELSE g.outputCount)])]
        ELSE
            [m EXCEPT !.stack = SetTop(@, [g EXCEPT
                 !.pc = "run276", !.now = clock,
                 !.val = MarginOf(g.total, g.outputCount, g.bz.sell)])]

\* The synchronous continuation of the caller when an awaited call settles.
Resume(m, val, clock) ==
    IF m.stack = <<>> THEN [m EXCEPT !.out = val]
    ELSE LET f == Top(m.stack)
         IN  IF val = Throw THEN
                 Return(m, IF f.fn = "computeMarginForItem" THEN "threw" ELSE "propagated",
                        Throw, clock)
             ELSE IF f.pc = "await198" THEN
                 \* lines 198-204
                 IF val # Null
                 THEN Return(m, "lbinFetch", Price(MathRoundNum(val), "lbin", 0), clock)
                 ELSE [m EXCEPT !.stack =
                         Push(SetTop(@, [f EXCEPT !.pc = "await204"]),
                              Frame("getRecipeCached", f.name, "get95", clock))]
             ELSE IF f.pc \in {"await204", "await250"} THEN AfterRecipe(m, val, clock)
             ELSE AfterIngredient(m, val, clock)

\* --------------------------------------------------------------- state ---
VARIABLES
    now,            \* Date.now()
    bazaarPrices,   \* line 15: the market snapshot, item -> Quote or Null
    lbinCache,      \* line 16: item -> [price, updatedAt] or Null
    prices,         \* table prices: item -> PriceRow or Null
    recipes,        \* table recipes: item -> [json, updatedAt] or Null
    craft_margins,  \* table craft_margins: item -> margin row or Null
    CONCURRENCY,    \* line 8: the limit of every p-limit pool
    main,           \* where startServer / initialLoadAndCompute stands
    items,          \* line 298: Object.keys(bazaarPrices) of the bootstrap
    queue,          \* per pool: the tasks p-limit has not started yet
    stack,          \* per limiter slot: the call stack of its running task
    visited,        \* per limiter slot: the Set of the current top-level getItemPrice
    processed,      \* lines 302, 315
    storeFaults,    \* store operations that have failed so far
    refreshes,      \* per timer pool: iterations of its loop so far
    polls,          \* polls of the feed timer so far
    results,        \* how each task of the bootstrap settled, the resolutions that
                    \* overlap one in flight, what the providers answered its margin
                    \* tasks and the items the last top-margins firing found
                    \* computable without a row (read by the properties only)
    ev              \* what the last step did (read by the properties only)

vars == <<now, bazaarPrices, lbinCache, prices, recipes, craft_margins, CONCURRENCY,
          main, items, queue, stack, visited, processed, storeFaults, refreshes, polls, results, ev>>

Pools == {"boot", "top", "rec"}
\* the pools the timers of startBackgroundWorkers create (lines 342, 353)
Loops == {"top", "rec"}
Slots == {1, 2}
Procs == Pools \X Slots
\* Object.keys order of a snapshot
ItemOrder == <<"A", "B", "C">>
KeysOf(snapshot) == SelectSeq(ItemOrder, LAMBDA i : snapshot[i] # Null)

NoEv == [p |-> <<"none", 0>>, act |-> "init", rets |-> <<>>, out |-> NoOut, task |-> "none",
         snap |-> Null, races |-> {}]

InitWith(conc) ==
    /\ now = 0
    /\ bazaarPrices = NoFeed
    /\ lbinCache = [i \in Items |-> Null]
    /\ prices = [i \in Items |-> Null]
    /\ recipes = [i \in Items |-> Null]
    /\ craft_margins = [i \in Items |-> Null]
    /\ CONCURRENCY = conc
    /\ main = "start389"
    /\ items = <<>>
    /\ queue = [q \in Pools |-> <<>>]
    /\ stack = [p \in Procs |-> <<>>]
    /\ visited = [p \in Procs |-> {}]
    /\ processed = 0
    /\ storeFaults = 0
    /\ refreshes = [l \in Loops |-> 0]
    /\ polls = 0
    /\ results = [prefetch |-> [i \in Items |-> "none"],
                  margin   |-> [i \in Items |-> "none"],
                  pending  |-> {},
                  answers  |-> {},
                  due      |-> {}]
    /\ ev = NoEv

Init == InitWith(1)

\* the task a slot of the pool runs (lines 304, 317, 343, 355)
TaskOf(pool) ==
    IF pool = "boot" /\ main = "phase1" THEN "prefetch"
    ELSE IF pool = "boot" THEN "margin"
    ELSE IF pool = "top" THEN "refresh" ELSE "recrefresh"

\* Guarded with the try/catch of lines 338-348 and 351-359 left out
GuardedBootOnly(pool) == pool = "boot"

\* the pools whose tasks settle inside a try/catch: lines 318-321 and 390
\* (boot), 338-348 (top), 351-359 (rec)
Guarded(pool) == pool \in {"boot", "top", "rec"}

\* A task of the pool has settled with `out`.  A rejection that no catch
\* receives ends the process, and its timers with it.
Settled(pool, out) ==
    IF out = Throw /\ ~Guarded(pool) THEN "crashed" ELSE main

\* the items whose getItemPrice activations are on the stack
Resolving(st) == {st[k].name : k \in {j \in DOMAIN st : st[j].fn = "getItemPrice"}}
\* the getItemPrice activations that returned in the step, guard hits aside
Finished(m) ==
    {m.rets[k] : k \in {j \in DOMAIN m.rets :
                           /\ m.rets[j].fn = "getItemPrice"
                           /\ m.rets[j].via \notin {"cycle", "visited", "noname"}}}
\* A resolution that returns while another slot resolves the same item is
\* remembered for that slot, until that slot's resolution returns.
PendingAfter(p, m) ==
    {w \in results.pending : ~(w.slot = p /\ \E r \in Finished(m) : r.item = w.item)}
    \cup {[item |-> c[1].item, slot |-> c[2], val |-> c[1].val] :
            c \in {d \in Finished(m) \X (Procs \ {p}) :
                      d[1].item \in Resolving(stack[d[2]])}}
\* the pairs of overlapping resolutions of one item the step completes
RacesOf(p, m) ==
    {[item |-> c[1].item, first |-> c[1].val, second |-> c[2].val] :
        c \in {d \in {x \in results.pending : x.slot = p} \X Finished(m) :
                  d[1].item = d[2].item}}
\* what the auction and recipe providers answered a margin task of the
\* bootstrap in the step
AnswersOf(m) ==
    {<<m.rets[k].fn, m.rets[k].item, m.rets[k].val>> :
        k \in {j \in DOMAIN m.rets :
                  /\ main = "phase2"
                  /\ m.rets[j].fn \in {"fetchLBIN", "fetchAndStoreRecipe"}
                  /\ m.rets[j].via # "caught"}}

\* how a task settled
Outcome(out) == IF out = Throw THEN "threw" ELSE IF out = Null THEN "null" ELSE "ok"

\* Commit without the try/catch of lines 318-321: a task that throws does not
\* reach the processed++ of line 322
CommitNoCatch(p, m, item, act) ==
    /\ stack' = [stack EXCEPT ![p] = m.stack]
    /\ visited' = [visited EXCEPT ![p] = m.visited]
    /\ processed' = IF m.stack = <<>> /\ p[1] = "boot" /\ m.out # Throw
                    THEN processed + 1 ELSE processed
    /\ main' = IF m.stack = <<>> THEN Settled(p[1], m.out) ELSE main
    /\ results' = [(IF m.stack = <<>> /\ p[1] = "boot"
                    THEN [results EXCEPT ![TaskOf("boot")][item] = Outcome(m.out)]
                    ELSE results)
                      EXCEPT !.pending = PendingAfter(p, m),
                             !.answers = @ \cup AnswersOf(m)]
    /\ ev' = [p |-> p, act |-> act, rets |-> m.rets, out |-> m.out, task |-> TaskOf(p[1]),
              snap |-> Null, races |-> RacesOf(p, m)]

\* A slot's step ends: its machine state is stored.  A bootstrap task that
\* has settled, by returning or by throwing into the catch of line 320,
\* counts itself (lines 306, 322).
Commit(p, m, item, act) ==
    /\ stack' = [stack EXCEPT ![p] = m.stack]
    /\ visited' = [visited EXCEPT ![p] = m.visited]
    /\ processed' = IF m.stack = <<>> /\ p[1] = "boot" THEN processed + 1 ELSE processed
    /\ main' = IF m.stack = <<>> THEN Settled(p[1], m.out) ELSE main
    /\ results' = [(IF m.stack = <<>> /\ p[1] = "boot"
                    THEN [results EXCEPT ![TaskOf("boot")][item] = Outcome(m.out)]
                    ELSE results)
                      EXCEPT !.pending = PendingAfter(p, m),
                             !.answers = @ \cup AnswersOf(m)]
    /\ ev' = [p |-> p, act |-> act, rets |-> m.rets, out |-> m.out, task |-> TaskOf(p[1]),
              snap |-> Null, races |-> RacesOf(p, m)]

Awaits(p, fn, pcs) ==
    /\ stack[p] # <<>>
    /\ Top(stack[p]).fn = fn
    /\ Top(stack[p]).pc \in pcs

\* ------------------------------------------------------ getItemPrice ---
\* Resolve171 with the market quote tried before the stored row
Resolve171QuoteFirst(m, pr, bz, cachedLbin, clock) ==
    LET f      == Top(m.stack)
        fresh  == pr # Null /\ IsFresh(f.now, pr.updatedAt)
        hasBuy == bz # Null /\ bz.buy # Null
        lbinOk == cachedLbin # Null /\ IsFresh(f.now, cachedLbin.updatedAt)
        g      == [f EXCEPT !.read = pr,
                            !.obs = [fresh |-> fresh, bazaar |-> hasBuy, lbinC |-> lbinOk,
                                     bz |-> bz, lbin |-> cachedLbin]]
        m1     == [m EXCEPT !.stack = SetTop(@, g)]
    IN  IF hasBuy THEN
            [m EXCEPT !.stack = SetTop(@, [g EXCEPT !.pc = "run180",
                                                    !.val = MathRoundNum(bz.buy)])]
        ELSE IF fresh THEN Return(m1, "cache", Price(pr.price, pr.source, pr.layers), clock)
        ELSE IF lbinOk THEN
            [m EXCEPT !.stack = SetTop(@, [g EXCEPT !.pc = "run191",
                                                    !.val = MathRoundNum(cachedLbin.price)])]
        ELSE [m EXCEPT !.stack = Push(SetTop(@, [g EXCEPT !.pc = "await198"]),
                                      Frame("fetchLBIN", f.name, "fetch109", clock))]

\* Resolve171 with the lbinCache entry tried before the market quote
Resolve171LbinFirst(m, pr, bz, cachedLbin, clock) ==
    LET f      == Top(m.stack)
        fresh  == pr # Null /\ IsFresh(f.now, pr.updatedAt)
        hasBuy == bz # Null /\ bz.buy # Null
        lbinOk == cachedLbin # Null /\ IsFresh(f.now, cachedLbin.updatedAt)
        g      == [f EXCEPT !.read = pr,
                            !.obs = [fresh |-> fresh, bazaar |-> hasBuy, lbinC |-> lbinOk,
                                     bz |-> bz, lbin |-> cachedLbin]]
        m1     == [m EXCEPT !.stack = SetTop(@, g)]
    IN  IF fresh THEN Return(m1, "cache", Price(pr.price, pr.source, pr.layers), clock)
        ELSE IF lbinOk THEN
            [m EXCEPT !.stack = SetTop(@, [g EXCEPT !.pc = "run191",
                                                    !.val = MathRoundNum(cachedLbin.price)])]
        ELSE IF hasBuy THEN
            [m EXCEPT !.stack = SetTop(@, [g EXCEPT !.pc = "run180",
                                                    !.val = MathRoundNum(bz.buy)])]
        ELSE [m EXCEPT !.stack = Push(SetTop(@, [g EXCEPT !.pc = "await198"]),
                                      Frame("fetchLBIN", f.name, "fetch109", clock))]

\* lines 172-198: the prices row has arrived
Resolve171(m, pr, bz, cachedLbin, clock) ==
    LET f      == Top(m.stack)
        fresh  == pr # Null /\ IsFresh(f.now, pr.updatedAt)
        hasBuy == bz # Null /\ bz.buy # Null
        lbinOk == cachedLbin # Null /\ IsFresh(f.now, cachedLbin.updatedAt)
        g      == [f EXCEPT !.read = pr,
                            !.obs = [fresh |-> fresh, bazaar |-> hasBuy, lbinC |-> lbinOk,
                                     bz |-> bz, lbin |-> cachedLbin]]
        m1     == [m EXCEPT !.stack = SetTop(@, g)]
    IN  IF fresh THEN Return(m1, "cache", Price(pr.price, pr.source, pr.layers), clock)
        ELSE IF hasBuy THEN
            [m EXCEPT !.stack = SetTop(@, [g EXCEPT !.pc = "run180",
                                                    !.val = MathRoundNum(bz.buy)])]
        ELSE IF lbinOk THEN
            [m EXCEPT !.stack = SetTop(@, [g EXCEPT !.pc = "run191",
                                                    !.val = MathRoundNum(cachedLbin.price)])]
        ELSE [m EXCEPT !.stack = Push(SetTop(@, [g EXCEPT !.pc = "await198"]),
                                      Frame("fetchLBIN", f.name, "fetch109", clock))]

\* line 171: db.get on prices completes
PricesGet(p) ==
    /\ Awaits(p, "getItemPrice", {"get171"})
    /\ LET name == Top(stack[p]).name
       IN  Commit(p, Resolve171(Machine(stack[p], visited[p]), prices[name],
                                bazaarPrices[name], lbinCache[name], now), stack[p][1].name, "PricesGet")
    /\ UNCHANGED <<now, bazaarPrices, lbinCache, prices, recipes, craft_margins,
                   CONCURRENCY, items, queue, storeFaults, refreshes, polls>>

\* RowOf stamping the row with the time of the write
RowOfAtWrite(f) ==
    CASE f.pc = "run180" -> PriceRow(f.val, "bazaar", 0, now)
      [] f.pc = "run191" -> PriceRow(f.val, "lbin", 0, now)
      [] f.pc = "run225" -> PriceRow(f.val, "craft", f.maxLayer, now)

\* the row the db.run of lines 180, 191, 225 upserts, stamped with the now of
\* line 170
RowOf(f) ==
    CASE f.pc = "run180" -> PriceRow(f.val, "bazaar", 0, f.now)
      [] f.pc = "run191" -> PriceRow(f.val, "lbin", 0, f.now)
      [] f.pc = "run225" -> PriceRow(f.val, "craft", f.maxLayer, f.now)

ViaOf(pc) ==
    CASE pc = "run180" -> "bazaar" [] pc = "run191" -> "lbinCache" [] pc = "run225" -> "craft"

\* lines 180-185, 191-196, 225-230: db.run on prices completes
PricesRun(p) ==
    /\ Awaits(p, "getItemPrice", {"run180", "run191", "run225"})
    /\ LET f   == Top(stack[p])
           row == RowOf(f)
       IN  /\ prices' = [prices EXCEPT ![f.name] = row]
           /\ Commit(p, Return(Machine(AddFx(stack[p], <<"wPrices", f.name>>), visited[p]),
                               ViaOf(f.pc), Price(row.price, row.source, row.layers), now),
                     stack[p][1].name, "PricesRun")
    /\ UNCHANGED <<now, bazaarPrices, lbinCache, recipes, craft_margins,
                   CONCURRENCY, items, queue, storeFaults, refreshes, polls>>

\* --------------------------------------------------------- fetchLBIN ---
\* lines 109-123: the auction provider answers (<<>>: failure, not ok, empty
\* text, malformed JSON, not an array or an empty array)
LbinFetch(p) ==
    /\ Awaits(p, "fetchLBIN", {"fetch109"})
    /\ \E arr \in AuctionPool(Top(stack[p]).name) \cup {<<>>} :
         LET f   == Top(stack[p])
             min == MinListing(arr, Null)
             st  == AddFx(stack[p], <<"auction", f.name>>)
         IN  IF min = Null
             THEN /\ lbinCache' = lbinCache
                  /\ Commit(p, Return(Machine(st, visited[p]), "nolisting", Null, now),
                            stack[p][1].name, "LbinFetch")
             ELSE /\ lbinCache' = [lbinCache EXCEPT ![f.name] =
                                     [t |-> "lbin", price |-> min, updatedAt |-> now]]
                  /\ Commit(p, Machine(SetTop(AddFx(st, <<"wLbin", f.name>>),
                                 [Top(st) EXCEPT !.pc = "run124", !.val = min, !.now = now,
                                                 !.fx = @ \cup {<<"wLbin", f.name>>}]),
                                 visited[p]), stack[p][1].name, "LbinFetch")
    /\ UNCHANGED <<now, bazaarPrices, prices, recipes, craft_margins,
                   CONCURRENCY, items, queue, storeFaults, refreshes, polls>>

\* LbinRun without the upsert of lines 124-128
LbinRunNoWrite(p) ==
    /\ Awaits(p, "fetchLBIN", {"run124"})
    /\ LET f == Top(stack[p])
       IN  /\ prices' = prices
           /\ Commit(p, Return(Machine(AddFx(stack[p], <<"wPrices", f.name>>), visited[p]),
                               "ok", f.val, now), stack[p][1].name, "LbinRun")
    /\ UNCHANGED <<now, bazaarPrices, lbinCache, recipes, craft_margins,
                   CONCURRENCY, items, queue, storeFaults, refreshes, polls>>

\* lines 124-129: db.run on prices completes
LbinRun(p) ==
    /\ Awaits(p, "fetchLBIN", {"run124"})
    /\ LET f == Top(stack[p])
       IN  /\ prices' = [prices EXCEPT ![f.name] =
                            PriceRow(MathRoundNum(f.val), "lbin", 0, f.now)]
           /\ Commit(p, Return(Machine(AddFx(stack[p], <<"wPrices", f.name>>), visited[p]),
                               "ok", f.val, now), stack[p][1].name, "LbinRun")
    /\ UNCHANGED <<now, bazaarPrices, lbinCache, recipes, craft_margins,
                   CONCURRENCY, items, queue, storeFaults, refreshes, polls>>

\* ------------------------------------ getRecipeCached / fetchAndStoreRecipe ---
\* lines 95-104: db.get on recipes completes; without a row the call goes on
\* as fetchAndStoreRecipe (line 104, a tail call)
RecipesGet(p) ==
    /\ Awaits(p, "getRecipeCached", {"get95"})
    /\ LET f   == Top(stack[p])
           row == recipes[f.name]
           m   == Machine(AddFx(stack[p], <<"rRecipes", f.name>>), visited[p])
       IN  Commit(p, IF row # Null THEN Return(m, "row", row.json, now)
                     ELSE [m EXCEPT !.stack = SetTop(@,
                              [Top(m.stack) EXCEPT !.fn = "fetchAndStoreRecipe",
                                                   !.pc = "fetch76"])],
                  stack[p][1].name, "RecipesGet")
    /\ UNCHANGED <<now, bazaarPrices, lbinCache, prices, recipes, craft_margins,
                   CONCURRENCY, items, queue, storeFaults, refreshes, polls>>

\* what the recipe provider may answer for the item: one of its recipes, the
\* one it answered before when the store holds it
RecipeAnswers(name) ==
    IF recipes[name] # Null THEN {recipes[name].json} ELSE RecipePool(name)

\* lines 76-82: the recipe provider answers (Null: failure, not ok, empty text
\* or malformed JSON)
RecipeFetch(p) ==
    /\ Awaits(p, "fetchAndStoreRecipe", {"fetch76"})
    /\ \E json \in RecipeAnswers(Top(stack[p]).name) \cup {Null} :
         LET f  == Top(stack[p])
             st == AddFx(stack[p], <<"recipeApi", f.name>>)
         IN  Commit(p, IF json = Null
                       THEN Return(Machine(st, visited[p]), "norecipe", Null, now)
                       ELSE Machine(SetTop(st, [Top(st) EXCEPT !.pc = "run83",
                                                !.val = json, !.now = now]), visited[p]),
                    stack[p][1].name, "RecipeFetch")
    /\ UNCHANGED <<now, bazaarPrices, lbinCache, prices, recipes, craft_margins,
                   CONCURRENCY, items, queue, storeFaults, refreshes, polls>>

\* lines 83-88: db.run on recipes completes
RecipeRun(p) ==
    /\ Awaits(p, "fetchAndStoreRecipe", {"run83"})
    /\ LET f == Top(stack[p])
       IN  /\ recipes' = [recipes EXCEPT ![f.name] =
                             [t |-> "rrow", json |-> f.val, updatedAt |-> f.now]]
           /\ Commit(p, Return(Machine(AddFx(stack[p], <<"wRecipes", f.name>>), visited[p]),
                               "ok", f.val, now), stack[p][1].name, "RecipeRun")
    /\ UNCHANGED <<now, bazaarPrices, lbinCache, prices, craft_margins,
                   CONCURRENCY, items, queue, storeFaults, refreshes, polls>>

\* ---------------------------------------------- computeMarginForItem ---
\* lines 248-250: the synchronous entry, up to the db.get of getRecipeCached
computeMarginForItem(m, itemName, bzTable, marginRow, clock) ==
    LET bz == bzTable[itemName]
        f  == [Frame("computeMarginForItem", itemName, "await250", clock)
                  EXCEPT !.bz = bz, !.pre = marginRow]
        m1 == [m EXCEPT !.stack = Push(@, f)]
    IN  IF bz = Null \/ bz.sell = Null THEN Return(m1, "nosell", Null, clock)
        ELSE [m1 EXCEPT !.stack = Push(@, Frame("getRecipeCached", itemName, "get95", clock))]

\* the row the db.run of line 276 upserts
MarginRow(f) ==
    [t |-> "margin", costPerUnit |-> f.val.costPerUnit, sellPrice |-> f.val.sellPrice,
     profit |-> f.val.profit, marginPercent |-> f.val.marginPercent, updatedAt |-> f.now]

\* lines 276-291: db.run on craft_margins completes
MarginRun(p) ==
    /\ Awaits(p, "computeMarginForItem", {"run276"})
    /\ LET f == Top(stack[p])
       IN  /\ craft_margins' = [craft_margins EXCEPT ![f.name] = MarginRow(f)]
           /\ Commit(p, Return(Machine(AddFx(stack[p], <<"wMargin", f.name>>), visited[p]),
                               "ok", MarginRow(f), now), stack[p][1].name, "MarginRun")
    /\ UNCHANGED <<now, bazaarPrices, lbinCache, prices, recipes,
                   CONCURRENCY, items, queue, storeFaults, refreshes, polls>>

\* ------------------------------------------------------- store faults ---
\* A db.get or db.run rejects.  fetchLBIN and fetchAndStoreRecipe catch it and
\* return null (lines 130-132, 89-91); everywhere else it propagates.
StoreFault(p) ==
    /\ storeFaults < MaxStoreFaults
    /\ stack[p] # <<>>
    /\ Top(stack[p]).pc \in {"get171", "run180", "run191", "run225", "run124",
                             "get95", "run83", "run276"}
    /\ storeFaults' = storeFaults + 1
    /\ LET f == Top(stack[p])
           m == Machine(stack[p], visited[p])
       IN  Commit(p, IF f.pc \in {"run124", "run83"}
                     THEN Return(m, "caught", Null, now)
                     ELSE Return(m, "storefault", Throw, now),
                  stack[p][1].name, "StoreFault")
    /\ UNCHANGED <<now, bazaarPrices, lbinCache, prices, recipes, craft_margins,
                   CONCURRENCY, items, queue, refreshes, polls>>

\* ----------------------------------------------------- the orchestrator ---
Busy(pool) == {s \in Slots : stack[<<pool, s>>] # <<>>}
Idle(pool) == queue[pool] = <<>> /\ Busy(pool) = {}
FreeSlot(pool) == CHOOSE s \in Slots \ Busy(pool) : \A r \in Slots \ Busy(pool) : s <= r

\* p-limit starts the next queued task when fewer than CONCURRENCY are
\* running (lines 303-311, 316-327, 343, 355)
StartTask(pool) ==
    /\ queue[pool] # <<>>
    /\ Cardinality(Busy(pool)) < CONCURRENCY
    /\ LET item == Head(queue[pool])
           p    == <<pool, FreeSlot(pool)>>
           m    == Machine(<<>>, {})
       IN  Commit(p, IF TaskOf(pool) \in {"prefetch", "recrefresh"}
                     THEN [m EXCEPT !.stack =
                             <<Frame("fetchAndStoreRecipe", item, "fetch76", now)>>]
                     ELSE computeMarginForItem(m, item, bazaarPrices,
                                               craft_margins[item], now),
                  item, "StartTask")
    /\ queue' = [queue EXCEPT ![pool] = Tail(@)]
    /\ UNCHANGED <<now, bazaarPrices, lbinCache, prices, recipes, craft_margins,
                   CONCURRENCY, items, storeFaults, refreshes, polls>>

\* fetchBazaarPrices writing the answer's entries into the shared snapshot in
\* place instead of swapping in a new object (line 67): entries of the previous
\* fetch that the answer lacks stay
fetchBazaarPricesInPlace ==
    /\ main \in {"start389", "init296", "bg"}
    /\ main = "bg" => polls < MaxPolls
    /\ polls' = IF main = "bg" THEN polls + 1 ELSE polls
    /\ \E snap \in FeedPool \cup {Null} :
         LET out == IF snap = Null THEN bazaarPrices
                    ELSE [i \in Items |-> IF snap[i] # Null THEN snap[i]
                                          ELSE bazaarPrices[i]]
         IN  /\ bazaarPrices' = out
             /\ IF main = "bg" \/ (main = "start389" /\ KeysOf(out) = <<>>)
                THEN /\ main' = IF main = "bg" THEN "bg" ELSE "init296"
                     /\ UNCHANGED <<items, queue>>
                ELSE /\ main' = "phase1"
                     /\ items' = KeysOf(out)
                     /\ queue' = [queue EXCEPT !["boot"] = KeysOf(out)]
             /\ ev' = [NoEv EXCEPT !.act = "fetchBazaarPrices",
                                   !.snap = IF snap = Null THEN [t |-> "failed"]
                                            ELSE [t |-> "snap", feed |-> snap]]
    /\ UNCHANGED <<now, lbinCache, prices, recipes, craft_margins, CONCURRENCY,
                   stack, visited, processed, storeFaults, refreshes, results>>

\* lines 52-72: the feed answers; a failed or malformed answer (Null) leaves
\* the snapshot as it was.  At start-up (line 389) and at line 296 the
\* bootstrap goes on with the keys of the snapshot (lines 298-311).
fetchBazaarPrices ==
    /\ main \in {"start389", "init296", "bg"}
    /\ main = "bg" => polls < MaxPolls
    /\ polls' = IF main = "bg" THEN polls + 1 ELSE polls
    /\ \E snap \in FeedPool \cup {Null} :
         LET out == IF snap = Null THEN bazaarPrices ELSE snap
         IN  /\ bazaarPrices' = out
             /\ IF main = "bg" \/ (main = "start389" /\ KeysOf(out) = <<>>)
                THEN /\ main' = IF main = "bg" THEN "bg" ELSE "init296"
                     /\ UNCHANGED <<items, queue>>
                ELSE /\ main' = "phase1"
                     /\ items' = KeysOf(out)
                     /\ queue' = [queue EXCEPT !["boot"] = KeysOf(out)]
             /\ ev' = [NoEv EXCEPT !.act = "fetchBazaarPrices",
                                   !.snap = IF snap = Null THEN [t |-> "failed"]
                                            ELSE [t |-> "snap", feed |-> snap]]
    /\ UNCHANGED <<now, lbinCache, prices, recipes, craft_margins, CONCURRENCY,
                   stack, visited, processed, storeFaults, refreshes, results>>

\* Phase1Done without the await of line 313: phase 2 is queued as soon as
\* every prefetch task has been created
Phase1DoneNoAwait ==
    /\ main = "phase1"
    /\ main' = "phase2"
    /\ processed' = 0
    /\ queue' = [queue EXCEPT !["boot"] = @ \o items]
    /\ ev' = [NoEv EXCEPT !.act = "Phase1Done", !.out = [t |-> "count", n |-> processed]]
    /\ UNCHANGED <<now, bazaarPrices, lbinCache, prices, recipes, craft_margins,
                   CONCURRENCY, items, stack, visited, storeFaults, refreshes, polls, results>>

\* lines 313-316: every prefetch task has settled
Phase1Done ==
    /\ main = "phase1" /\ Idle("boot")
    /\ main' = "phase2"
    /\ processed' = 0
    /\ queue' = [queue EXCEPT !["boot"] = items]
    /\ ev' = [NoEv EXCEPT !.act = "Phase1Done", !.out = [t |-> "count", n |-> processed]]
    /\ UNCHANGED <<now, bazaarPrices, lbinCache, prices, recipes, craft_margins,
                   CONCURRENCY, items, stack, visited, storeFaults, refreshes, polls, results>>

\* lines 329-330, 392-394: every margin task has settled; the timers start
Phase2Done ==
    /\ main = "phase2" /\ Idle("boot")
    /\ main' = "bg"
    /\ ev' = [NoEv EXCEPT !.act = "Phase2Done", !.out = [t |-> "count", n |-> processed]]
    /\ UNCHANGED <<now, bazaarPrices, lbinCache, prices, recipes, craft_margins,
                   CONCURRENCY, items, queue, stack, visited, processed, storeFaults,
                   refreshes, polls, results>>

\* the items of craft_margins in an order of descending profit (line 339)
IsByProfit(seq) ==
    /\ \A i, j \in DOMAIN seq : i < j => craft_margins[seq[i]].profit >= craft_margins[seq[j]].profit
    /\ \A i, j \in DOMAIN seq : i # j => seq[i] # seq[j]
\* Ranked taking every item of the market snapshot instead of the rows of
\* craft_margins
RankedAllQuoted == {KeysOf(bazaarPrices)}

Ranked ==
    LET have == {i \in Items : craft_margins[i] # Null}
    IN  {seq \in [1..Cardinality(have) -> have] : IsByProfit(seq)}

\* The item has a market sell quote and a stored recipe whose ingredients are
\* distinct items, in positive number, with a market buy quote:
\* computeMarginForItem would price
\* every ingredient at line 178 and reach the upsert of line 276.
Computable(i) ==
    /\ bazaarPrices[i] # Null /\ bazaarPrices[i].sell # Null
    /\ recipes[i] # Null
    /\ LET ings == parseRecipeSlots(recipes[i].json).ingredients
       IN  /\ ings # <<>>
           /\ \A k \in DOMAIN ings :
                 /\ ings[k].item \in Items \ {i}
                 /\ IngCount(ings[k].count) > 0
                 /\ bazaarPrices[ings[k].item] # Null
                 /\ bazaarPrices[ings[k].item].buy # Null
           /\ \A k, l \in DOMAIN ings : k # l => ings[k].item # ings[l].item

\* lines 337-344: one firing of the top-margins timer, once the previous
\* iteration's tasks have settled
TopRefresh ==
    /\ main = "bg" /\ Idle("top")
    /\ refreshes["top"] < MaxRefresh
    /\ refreshes' = [refreshes EXCEPT !["top"] = @ + 1]
    /\ \E seq \in Ranked : queue' = [queue EXCEPT !["top"] = seq]
    /\ results' = [results EXCEPT
                      !.due = {i \in Items : Computable(i) /\ craft_margins[i] = Null}]
    /\ ev' = [NoEv EXCEPT !.act = "TopRefresh"]
    /\ UNCHANGED <<now, bazaarPrices, lbinCache, prices, recipes, craft_margins,
                   CONCURRENCY, main, items, stack, visited, processed, storeFaults, polls>>

\* the items of recipes in an order of ascending updatedAt (line 352)
IsByAge(seq) ==
    /\ \A i, j \in DOMAIN seq : i < j => recipes[seq[i]].updatedAt <= recipes[seq[j]].updatedAt
    /\ \A i, j \in DOMAIN seq : i # j => seq[i] # seq[j]
Oldest ==
    LET have == {i \in Items : recipes[i] # Null}
    IN  {seq \in [1..Cardinality(have) -> have] : IsByAge(seq)}

\* lines 350-355: one firing of the recipe-refresh timer, once the previous
\* iteration's tasks have settled
RecipeRefresh ==
    /\ main = "bg" /\ Idle("rec")
    /\ refreshes["rec"] < MaxRefresh
    /\ refreshes' = [refreshes EXCEPT !["rec"] = @ + 1]
    /\ \E seq \in Oldest : queue' = [queue EXCEPT !["rec"] = seq]
    /\ ev' = [NoEv EXCEPT !.act = "RecipeRefresh"]
    /\ UNCHANGED <<now, bazaarPrices, lbinCache, prices, recipes, craft_margins,
                   CONCURRENCY, main, items, stack, visited, processed, storeFaults, polls,
                   results>>

\* lines 339, 352: the db.all of a firing rejects; the catch of lines 346, 357
\* ends the iteration
RefreshFault(loop) ==
    /\ main = "bg" /\ Idle(loop)
    /\ refreshes[loop] < MaxRefresh
    /\ storeFaults < MaxStoreFaults
    /\ refreshes' = [refreshes EXCEPT ![loop] = @ + 1]
    /\ storeFaults' = storeFaults + 1
    /\ main' = Settled(loop, Throw)
    /\ ev' = [NoEv EXCEPT !.act = "RefreshFault", !.out = Throw]
    /\ UNCHANGED <<now, bazaarPrices, lbinCache, prices, recipes, craft_margins,
                   CONCURRENCY, items, queue, stack, visited, processed, polls, results>>

\* Time passes.  The clock is advanced after the bootstrap and between tasks
\* only: the bootstrap runs at time 0, and every timestamp a later task takes
\* is the time at which the task started.
Tick ==
    /\ main = "bg"
    /\ \A p \in Procs : stack[p] = <<>>
    /\ \E d \in {PRICE_CACHE_TTL - 1, PRICE_CACHE_TTL} :
         /\ now + d <= MaxNow
         /\ now' = now + d
    /\ ev' = [NoEv EXCEPT !.act = "Tick"]
    /\ UNCHANGED <<bazaarPrices, lbinCache, prices, recipes, craft_margins, CONCURRENCY,
                   main, items, queue, stack, visited, processed, storeFaults, refreshes, polls,
                   results>>

\* Time passes while a margin task of the bootstrap awaits a write of a
\* prices row (lines 124, 180, 191, 225), less than the TTL in all.
TickBusy ==
    /\ main = "phase2"
    /\ \E p \in Procs : /\ stack[p] # <<>>
                        /\ Top(stack[p]).pc \in {"run124", "run180", "run191", "run225"}
    /\ now + PRICE_CACHE_TTL - 1 <= MaxNow
    /\ now' = now + PRICE_CACHE_TTL - 1
    /\ ev' = [NoEv EXCEPT !.act = "TickBusy"]
    /\ UNCHANGED <<bazaarPrices, lbinCache, prices, recipes, craft_margins, CONCURRENCY,
                   main, items, queue, stack, visited, processed, storeFaults, refreshes, polls,
                   results>>

\* what the slots of the pools do
SlotStep ==
    \/ \E pool \in Pools : StartTask(pool)
    \/ \E p \in Procs : PricesGet(p)
    \/ \E p \in Procs : PricesRun(p)
    \/ \E p \in Procs : LbinFetch(p)
    \/ \E p \in Procs : LbinRun(p)
    \/ \E p \in Procs : RecipesGet(p)
    \/ \E p \in Procs : RecipeFetch(p)
    \/ \E p \in Procs : RecipeRun(p)
    \/ \E p \in Procs : MarginRun(p)

\* The program with a store that answers every operation.
Next ==
    \/ fetchBazaarPrices
    \/ Phase1Done
    \/ Phase2Done
    \/ TopRefresh
    \/ Tick
    \/ SlotStep

Spec == Init /\ [][Next]_vars

\* The bootstrap (startServer up to the start of the timers) with a store
\* that may reject operations.
BootNext ==
    \/ fetchBazaarPrices
    \/ Phase1Done
    \/ Phase2Done
    \/ SlotStep
    \/ \E p \in Procs : StoreFault(p)

SpecBoot == Init /\ [][BootNext]_vars

\* The whole program with a store that may reject operations.
FaultNext ==
    \/ Next
    \/ \E p \in Procs : StoreFault(p)

SpecFault == Init /\ [][FaultNext]_vars

\* The bootstrap with two tasks of a pool running at a time (CONCURRENCY = 2)
\* and the clock advancing while their writes are awaited.
ConcNext ==
    \/ fetchBazaarPrices
    \/ Phase1Done
    \/ Phase2Done
    \/ SlotStep
    \/ TickBusy

SpecConc == InitWith(2) /\ [][ConcNext]_vars

\* every iteration the timer loops have left has fired and settled
LoopsSettled == \A l \in Loops : refreshes[l] = MaxRefresh /\ Idle(l)

\* The program over a span in which the recipe-refresh timer (period 12 h,
\* line 9) fires as well as the other two, with a store that may reject the
\* operations of the iterations.  The clock stands while the iterations run
\* and the feed is polled once they have settled.
LoopsNext ==
    \/ (main = "bg" => LoopsSettled) /\ fetchBazaarPrices
    \/ Phase1Done
    \/ Phase2Done
    \/ TopRefresh
    \/ RecipeRefresh
    \/ SlotStep
    \/ main = "bg" /\ \E p \in Procs : StoreFault(p)
    \/ \E loop \in Loops : RefreshFault(loop)

SpecLoops == Init /\ [][LoopsNext]_vars

\* ========================================================== properties ===
\* what the activations that settled in the last step reported
RetSet == {ev.rets[i] : i \in DOMAIN ev.rets}
GipRets == {r \in RetSet : r.fn = "getItemPrice"}
TopGipRets == {r \in GipRets : r.top}
MarginRets == {r \in RetSet : r.fn = "computeMarginForItem"}
IsPrice(v) == v.t = "price"
\* the prices row the activation read was within its TTL when it was called
Fresh(r) == r.read # Null /\ r.now - r.read.updatedAt < PRICE_CACHE_TTL
MaxOf(S) == CHOOSE x \in S : \A y \in S : y <= x

\* The recursion of getItemPrice is never deeper than the number of items.
DepthBounded == \A p \in Procs : Depth(stack[p]) <= Cardinality(Items)

\* C1: when a resolution started at an item of a recipe cycle runs into the
\* cycle (none of the cycle's items has a cached price, a market quote or an
\* auction listing), the top-level getItemPrice call terminates, never deeper
\* than the number of items, and returns absent (null).
C1_CycleResolvesAbsent ==
    /\ DepthBounded
    /\ \A c \in GipRets : c.via = "cycle" =>
         /\ \E r \in TopGipRets : r.item = c.item
         /\ \A r \in TopGipRets : r.item = c.item => r.val = Null

\* C2: a top-level getItemPrice call that reads a fresh prices row returns
\* exactly the stored {price, source, layers}, has called no provider and
\* written nothing, and the step leaves prices, recipes and lbinCache as
\* they were.
C2_FreshRowReturnedVerbatim ==
    [][\A r \in TopGipRets' :
         Fresh(r) =>
           /\ r.via = "cache"
           /\ r.val = Price(r.read.price, r.read.source, r.read.layers)
           /\ r.fx = {}
           /\ UNCHANGED <<prices, recipes, lbinCache>>]_vars

C2_Witness ==
    \E r \in TopGipRets : Fresh(r) /\ r.via = "cache" /\ r.read.source = "craft"

\* C3: getItemPrice returns the stored prices row only if the row's age at
\* the call is below PRICE_CACHE_TTL; with a row of age >= TTL the result
\* comes from the market, auction or craft sources or is no price at all.
C3_RowReusedOnlyWithinTTL ==
    \A r \in GipRets :
       /\ r.via = "cache" =>
            /\ r.read # Null
            /\ r.now - r.read.updatedAt < PRICE_CACHE_TTL
       /\ (r.read # Null /\ r.now - r.read.updatedAt >= PRICE_CACHE_TTL) =>
            /\ r.via \in {"bazaar", "lbinCache", "lbinFetch", "craft", "exhausted",
                          "propagated"}
            /\ IsPrice(r.val) => r.val.source = (IF r.via = "craft" THEN "craft"
                                                 ELSE IF r.via = "bazaar" THEN "bazaar"
                                                 ELSE "lbin")

C3_Witness ==
    \E r \in GipRets :
       /\ r.read # Null
       /\ r.now - r.read.updatedAt = PRICE_CACHE_TTL
       /\ r.via = "bazaar"

\* what a getItemPrice activation found available, from the values it read
HasBuy(r) == r.obs.bz # Null /\ r.obs.bz.buy # Null
LbinOk(r) == r.obs.lbin # Null /\ r.now - r.obs.lbin.updatedAt < PRICE_CACHE_TTL
\* the activation consulted this source for its own item
Consulted(r, kind) == <<kind, r.item>> \in r.fx

\* C4: getItemPrice tries fresh row, market buy quote, unexpired lbinCache
\* entry, live auction fetch, craft, fallback table in that order and the
\* first success decides: the returned source and price are those of the
\* highest-priority source available, no later source is consulted after a
\* success, and a later source is reached only when all earlier ones failed.
C4_FirstSuccessWins ==
    \A r \in GipRets :
       r.via \notin {"cycle", "visited", "noname"} =>
         /\ Fresh(r) =>
              /\ r.via = "cache"
              /\ r.val = Price(r.read.price, r.read.source, r.read.layers)
              /\ r.fx = {}
         /\ (~Fresh(r) /\ HasBuy(r)) =>
              /\ r.via \in {"bazaar", "storefault"}
              /\ r.fx \subseteq {<<"wPrices", r.item>>}
              /\ r.via = "bazaar" =>
                   r.val = Price(MathRoundNum(r.obs.bz.buy), "bazaar", 0)
         /\ (~Fresh(r) /\ ~HasBuy(r) /\ LbinOk(r)) =>
              /\ r.via \in {"lbinCache", "storefault"}
              /\ r.fx \subseteq {<<"wPrices", r.item>>}
              /\ r.via = "lbinCache" =>
                   r.val = Price(MathRoundNum(r.obs.lbin.price), "lbin", 0)
         /\ r.via = "lbinFetch" =>
              /\ ~Fresh(r) /\ ~HasBuy(r) /\ ~LbinOk(r)
              /\ Consulted(r, "auction") /\ ~Consulted(r, "rRecipes")
              /\ ~Consulted(r, "recipeApi")
              /\ r.val.source = "lbin"
         /\ r.via \in {"craft", "exhausted"} =>
              /\ ~Fresh(r) /\ ~HasBuy(r) /\ ~LbinOk(r)
              /\ Consulted(r, "auction") /\ Consulted(r, "rRecipes")
              /\ r.via = "craft" => r.val.source = "craft"

C4_Witness ==
    \E r \in GipRets :
       /\ ~Fresh(r) /\ HasBuy(r) /\ LbinOk(r)
       /\ r.via = "bazaar" /\ r.val.source = "bazaar"

\* C5: every prices row and every price getItemPrice returns has layers 0
\* when its source is bazaar, lbin or easy; a price resolved by crafting has
\* layers 1 + the largest layers returned for its ingredients, and so has
\* the row written for it.
C5_Layers ==
    /\ \A i \in Items : prices[i] # Null =>
         /\ prices[i].source \in {"bazaar", "lbin", "easy"} => prices[i].layers = 0
         /\ prices[i].source = "craft" => prices[i].layers >= 1
    /\ \A r \in GipRets : IsPrice(r.val) =>
         /\ r.val.source \in {"bazaar", "lbin", "easy"} => r.val.layers = 0
         /\ r.via = "craft" =>
              /\ r.val.source = "craft"
              /\ r.val.layers = 1 + MaxOf(r.subLayers)
              /\ prices[r.item].layers = r.val.layers

C5_Witness ==
    \E r \in GipRets : r.via = "craft" /\ r.val.layers = 2 /\ r.subLayers = {0, 1}

\* h is p / c * 100 to the nearest hundredth, in hundredths (c > 0)
NearestHundredth(h, p, c) ==
    LET err == h * c - p * 10000
    IN  2 * (IF err < 0 THEN -err ELSE err) <= c

\* C6: every craft_margins row has profit = sellPrice - costPerUnit on the
\* stored integers, and marginPercent = profit / costPerUnit * 100 rounded
\* to 2 decimals when costPerUnit > 0, else 0.
C6_MarginRowArithmetic ==
    \A i \in Items : craft_margins[i] # Null =>
       LET row == craft_margins[i]
       IN  /\ row.profit = row.sellPrice - row.costPerUnit
           /\ row.costPerUnit > 0 =>
                NearestHundredth(row.marginPercent, row.profit, row.costPerUnit)
           /\ row.costPerUnit <= 0 => row.marginPercent = 0

\* sellPrice 100, costPerUnit 25: profit 75, marginPercent 300.00
C6_Witness ==
    /\ craft_margins["A"] # Null
    /\ craft_margins["A"].sellPrice = 100 /\ craft_margins["A"].costPerUnit = 25
    /\ craft_margins["A"].profit = 75 /\ craft_margins["A"].marginPercent = 30000
    /\ \E r \in MarginRets : r.item = "A" /\ r.via = "ok"

\* C7: a computeMarginForItem call that does not succeed (no market sell
\* price, no recipe, a recipe without ingredients, an unpriceable
\* ingredient) returns absent (null) and leaves the item's craft_margins row
\* exactly as it was.
C7_FailedMarginReturnsAbsent ==
    \A r \in MarginRets :
       r.via # "ok" =>
         /\ r.val = Null
         /\ craft_margins[r.item] = r.pre

\* the top-level ingredient resolutions that ended without a price
UnpricedRets == {r \in TopGipRets : ~IsPrice(r.val)}
\* what a call wrote to the store
Writes(r) == {e \in r.fx : e[1] \in {"wPrices", "wRecipes", "wMargin"}}

\* C8 as stated: when an ingredient is unpriceable, the computeMarginForItem
\* call ends without success and has written no store record at all, neither
\* a margin row nor a prices row of an ingredient priced before.
C8_UnpriceableWritesNothing ==
    \A u \in UnpricedRets :
       \E r \in MarginRets :
          /\ r.via # "ok" /\ ~(r.val.t = "margin")
          /\ Writes(r) = {}

\* C8 as amended: when an ingredient is unpriceable, the computeMarginForItem
\* call ends in the same step without success (absent or rejected), it has
\* written no craft_margins row and the item's row is as it was before the
\* call; prices rows of ingredients resolved before may have been written.
C8_UnpriceableWritesNoMargin ==
    \A u \in UnpricedRets :
       \E r \in MarginRets :
          /\ r.via # "ok" /\ r.val \in {Null, Throw}
          /\ <<"wMargin", r.item>> \notin r.fx
          /\ craft_margins[r.item] = r.pre

C8_Witness ==
    \E u \in UnpricedRets : \E r \in MarginRets :
       /\ r.via \in {"unpriceable", "threw"}
       /\ r.pre # Null /\ craft_margins[r.item] = r.pre
       /\ \E e \in r.fx : e[1] = "wPrices"

\* the numeric prices of the listings of an auction answer
ListingNums(arr) == {v \in {ListingPrice(arr[i]) : i \in DOMAIN arr} : IsNum(v)}
IsMinOf(v, arr) == v \in ListingNums(arr) /\ \A w \in ListingNums(arr) : ~NumLess(w, v)

\* C9 as stated: a getItemPrice call that succeeds through the live auction
\* fetch returns source lbin with layers 0, and the item's prices row is the
\* same after the call as before it.
C9_LiveFetchNotPersisted ==
    \A r \in GipRets :
       r.via = "lbinFetch" =>
         /\ r.val.source = "lbin" /\ r.val.layers = 0
         /\ prices[r.item] = r.read

\* C9 as amended: a getItemPrice call that succeeds through the live auction
\* fetch returns source lbin, layers 0 and the minimum numeric listing price
\* rounded to the nearest integer, and fetchLBIN has upserted the item's
\* prices row to that price with source lbin, layers 0 and the fetch time.
C9_LiveFetchPersistedByFetchLBIN ==
    \A r \in GipRets :
       r.via = "lbinFetch" =>
         /\ \E arr \in AuctionPool(r.item) : \E v \in ListingNums(arr) :
               /\ IsMinOf(v, arr)
               /\ r.val = Price(MathRoundNum(v), "lbin", 0)
         /\ <<"wPrices", r.item>> \in r.fx
         /\ prices[r.item] # Null
         /\ prices[r.item].price = r.val.price
         /\ prices[r.item].source = "lbin" /\ prices[r.item].layers = 0
         /\ prices[r.item].updatedAt >= r.now /\ prices[r.item].updatedAt <= now

C9_Witness ==
    \E r \in GipRets :
       /\ r.via = "lbinFetch" /\ r.item = "C" /\ r.val.price = 4
       /\ r.read # Null /\ r.read.updatedAt < prices["C"].updatedAt
       /\ prices["C"].price = 4 /\ prices["C"].source = "lbin"

\* C10: in the bootstrap, with provider calls and store operations failing
\* and margin computations throwing, each phase ends only when every item
\* has been counted as processed and its task has settled, and what the
\* tasks that did not fail produced is in the store.
C10_BatchSurvivesFailures ==
    /\ ev.act \in {"Phase1Done", "Phase2Done"} =>
         /\ ev.out.n = Len(items)
         /\ \A i \in DOMAIN items : results["prefetch"][items[i]] # "none"
         /\ \A i \in DOMAIN items :
               results["prefetch"][items[i]] = "ok" => recipes[items[i]] # Null
    /\ ev.act = "Phase2Done" =>
         /\ \A i \in DOMAIN items : results["margin"][items[i]] # "none"
         /\ \A i \in DOMAIN items :
               results["margin"][items[i]] = "ok" => craft_margins[items[i]] # Null
    /\ main \in {"phase1", "phase2"} => processed <= Len(items)

C10_Witness ==
    /\ ev.act = "Phase2Done" /\ storeFaults > 0 /\ Len(items) >= 2
    /\ \E i, j \in DOMAIN items :
          /\ results["margin"][items[i]] = "threw"
          /\ results["margin"][items[j]] = "ok"
          /\ craft_margins[items[j]] # Null

\* the getItemPrice activations that went through every source without a price
ExhaustedRets ==
    {r \in GipRets : r.via \notin {"cycle", "visited", "noname"} /\ ~IsPrice(r.val)}

\* C11: a getItemPrice call whose sources are all exhausted (no fresh row, no
\* market buy quote, no auction listing, no recipe or an unpriceable recipe,
\* no fallback entry) returns absent (null), never an exception, and has
\* written no prices row for its item.
C11_ExhaustedReturnsAbsent ==
    \A r \in ExhaustedRets :
       /\ r.val = Null
       /\ <<"wPrices", r.item>> \notin r.fx

\* C12: bazaarPrices is always the initial empty snapshot or the whole answer
\* of one successful feed fetch: only fetchBazaarPrices changes it, a
\* successful fetch replaces it by exactly the answer, a failed fetch leaves
\* it as it was, and a computeMarginForItem that starts reads the entry of the
\* snapshot current at that step.
C12_SnapshotSwappedWhole ==
    [][/\ bazaarPrices' \in FeedPool \cup {NoFeed}
       /\ bazaarPrices' # bazaarPrices =>
            (ev'.act = "fetchBazaarPrices" /\ ev'.snap.t = "snap")
       /\ ev'.act = "fetchBazaarPrices" =>
            /\ ev'.snap.t = "snap" => bazaarPrices' = ev'.snap.feed
            /\ ev'.snap.t = "failed" => bazaarPrices' = bazaarPrices
       /\ (ev'.act = "StartTask" /\ ev'.task # "prefetch" /\ stack'[ev'.p] # <<>>) =>
            stack'[ev'.p][1].bz = bazaarPrices'[stack'[ev'.p][1].name]]_vars

\* a fetch has replaced the snapshot while a margin computation that read an
\* entry of the previous snapshot is still in flight
C12_Witness ==
    /\ ev.act = "fetchBazaarPrices" /\ ev.snap.t = "snap"
    /\ bazaarPrices = ev.snap.feed
    /\ \E p \in Procs :
          /\ stack[p] # <<>>
          /\ stack[p][1].fn = "computeMarginForItem"
          /\ stack[p][1].bz # bazaarPrices[stack[p][1].name]

\* the names of the getItemPrice activations of a stack, outermost first
PathOf(st) ==
    LET idx == SelectSeq([i \in 1..Len(st) |-> i], LAMBDA i : st[i].fn = "getItemPrice")
    IN  [k \in 1..Len(idx) |-> st[idx[k]].name]

\* C14: within one top-level getItemPrice call no item is entered twice on
\* the resolution path, and a recursive call for an item that is on the path
\* returns absent at the guard of line 168: it has read no row, consulted no
\* provider and written nothing, and its item stays in the visited set.
C14_NoReentryOnPath ==
    /\ \A p \in Procs :
          /\ \A i, j \in DOMAIN PathOf(stack[p]) :
                i # j => PathOf(stack[p])[i] # PathOf(stack[p])[j]
          /\ OnPath(stack[p]) \subseteq visited[p]
    /\ \A r \in GipRets :
          r.via = "cycle" =>
            /\ r.val = Null /\ ~r.top
            /\ r.read = Null /\ r.fx = {} /\ r.obs = NoObs
            /\ r.depth >= 2
            /\ \E a \in GipRets : a.item = r.item /\ a.depth < r.depth /\ a.via # "cycle"

\* the guard stops a cycle through all three items at depth 4
C14_Witness ==
    \E r \in GipRets : r.via = "cycle" /\ r.depth = Cardinality(Items) + 1

\* C15: the guard of line 168 fails a sub-resolution only for an item on the
\* current resolution path; an item resolved before on another branch of the
\* same top-level call (a second slot of one recipe, a sibling sub-recipe) is
\* resolved again instead of failing at the guard.
C15_GuardFailsOnlyPathItems ==
    \A r \in GipRets : r.via # "visited"

\* every recipe prefetch task of the bootstrap has settled
PrefetchSettled == \A i \in DOMAIN items : results["prefetch"][items[i]] # "none"

\* C16: in the bootstrap no margin computation starts before the recipe
\* prefetch task of every item of the snapshot has finished: when a margin
\* task starts, is in flight or has settled, every prefetch task has settled
\* and none is in flight.
C16_MarginsAfterAllPrefetch ==
    /\ (ev.act = "StartTask" /\ ev.task = "margin") => PrefetchSettled
    /\ \A p \in Procs :
          (stack[p] # <<>> /\ stack[p][1].fn = "computeMarginForItem") =>
             /\ PrefetchSettled
             /\ \A q \in Procs :
                   stack[q] # <<>> => stack[q][1].fn = "computeMarginForItem"
    /\ (\E i \in Items : results["margin"][i] # "none") => PrefetchSettled

\* the first margin computation starts, after a prefetch that failed
C16_Witness ==
    /\ ev.act = "StartTask" /\ ev.task = "margin"
    /\ Len(items) >= 2
    /\ \E i \in DOMAIN items : results["prefetch"][items[i]] = "null"
    /\ \E p \in Procs : stack[p] # <<>> /\ stack[p][1].fn = "computeMarginForItem"

\* the count a recipe slot contributes: its parsed count, 1 when that is 0 or
\* not a number
SlotCount(ing) == IF ing.count.t = "int" /\ ing.count.v # 0 THEN ing.count.v ELSE 1
RECURSIVE CostOf(_, _)
CostOf(subs, ings) ==
    IF subs = <<>> THEN 0
    ELSE subs[1] * SlotCount(ings[1]) + CostOf(Tail(subs), Tail(ings))
\* v is total / n rounded to the nearest integer (n > 0)
NearestInteger(v, total, n) ==
    LET err == v * n - total
    IN  2 * (IF err < 0 THEN -err ELSE err) <= n

\* C18: a price getItemPrice resolves through the craft branch has every
\* ingredient of the recipe priced and equals the sum of ingredient unit
\* price times count, divided by outputCount and rounded, and so does the
\* persisted row; when an ingredient has no price the branch yields no price
\* and writes no row for the item.
C18_CraftPriceFormula ==
    /\ \A r \in GipRets :
          r.via = "craft" =>
            /\ Len(r.ings) >= 1 /\ Len(r.subs) = Len(r.ings)
            /\ r.outputCount >= 1
            /\ NearestInteger(r.val.price, CostOf(r.subs, r.ings), r.outputCount)
            /\ r.val.source = "craft"
            /\ prices[r.item] # Null
            /\ prices[r.item].price = r.val.price /\ prices[r.item].source = "craft"
    /\ \A n \in GipRets :
          (~n.top /\ ~IsPrice(n.val)) =>
             \E r \in GipRets :
                /\ r.depth = n.depth - 1
                /\ ~IsPrice(r.val)
                /\ <<"wPrices", r.item>> \notin r.fx

\* 2 x 10 + 1 x 5 with outputCount 1: price 25, layers 1
C18_Witness ==
    \E r \in GipRets :
       /\ r.via = "craft" /\ r.item = "A"
       /\ r.subs = <<10, 5>> /\ r.outputCount = 1
       /\ SlotCount(r.ings[1]) = 2 /\ SlotCount(r.ings[2]) = 1
       /\ r.val = Price(25, "craft", 1)
       /\ prices["A"].price = 25 /\ prices["A"].layers = 1

\* the per-item batch pipelines in flight: tasks started and not finished
InFlight == {p \in Procs : stack[p] # <<>>}

\* C13: at every moment at most CONCURRENCY per-item pipelines are in flight,
\* counted over the bootstrap and all refresh-loop iterations together.
C13_InFlightWithinBound == Cardinality(InFlight) <= CONCURRENCY

C20_UpdatedAtNeverDecreases ==
    [][\A i \in Items :
          prices[i] # Null => prices'[i].updatedAt >= prices[i].updatedAt]_vars

\* C20, amended: every write of a prices row stamps it with the time its
\* writer captured when it started (getItemPrice, line 170) or when the
\* auction answer arrived (fetchLBIN, line 122), a time not later than the
\* write; the last write wins whatever it replaces.
C20_RowStampedByWriter ==
    [][\A i \in Items :
          prices'[i] # prices[i] =>
             /\ ev'.p \in Procs
             /\ stack[ev'.p] # <<>>
             /\ LET f == Top(stack[ev'.p])
                IN  /\ f.fn \in {"getItemPrice", "fetchLBIN"}
                    /\ f.name = i
                    /\ prices'[i].updatedAt = f.now
                    /\ f.now <= now]_vars

\* a resolution that overlapped another of the same item writes the row with
\* a stamp older than the clock
C20_Witness ==
    \E r \in GipRets :
       /\ <<"wPrices", r.item>> \in r.fx
       /\ prices[r.item].updatedAt = r.now /\ r.now < now
       /\ \E w \in ev.races : w.item = r.item

\* each provider gave the margin tasks of the bootstrap one answer per item
SameAnswers ==
    \A a, b \in results.answers : (a[1] = b[1] /\ a[2] = b[2]) => a[3] = b[3]
\* the stored row of the item holds the value
RowHolds(i, v) ==
    /\ prices[i] # Null
    /\ prices[i].price = v.price /\ prices[i].source = v.source
    /\ prices[i].layers = v.layers

\* C19: two resolutions of one item that overlap in time in different batch
\* entries, with the same snapshot, recipes, clock and provider answers, return
\* the same value, and the prices row left when the second returns holds it.
C19_RacingResolutionsAgree ==
    (now = 0 /\ SameAnswers) =>
        \A w \in ev.races :
           /\ w.first = w.second
           /\ IsPrice(w.second) => RowHolds(w.item, w.second)

\* an iteration of the top-margins loop has fired and all its tasks have
\* settled
RecomputeDone == main = "bg" /\ refreshes["top"] >= 1 /\ Idle("top")

\* C21, as claimed: an item that has a market sell quote and a recipe with
\* priceable ingredients gets a craft_margins row: once an iteration of the
\* recomputation loop that fired while the item was in that state has run to
\* its end, and the item still is in that state, the row is there.
C21_ComputableItemGetsRow ==
    RecomputeDone =>
        \A i \in results.due : Computable(i) => craft_margins[i] # Null

\* C21, amended: after the bootstrap a craft_margins row is written only for
\* an item that already has one; an item the bootstrap left without a row, or
\* that entered the market snapshot later, never gets one.
C21_RowsOnlyForRankedItems ==
    [][\A i \in Items :
          (main = "bg" /\ craft_margins[i] = Null) => craft_margins'[i] = Null]_vars

\* the bootstrap's margin computation of an item failed, the item has been
\* computable since before a recomputation that rewrote another item's row,
\* and it has no row
C21_Witness ==
    /\ RecomputeDone
    /\ \E i \in results.due :
          /\ Computable(i) /\ craft_margins[i] = Null
          /\ results.margin[i] \in {"null", "threw"}
    /\ \E r \in MarginRets : r.via = "ok" /\ ev.p[1] = "top"

====
